---------------------------- MODULE Spec2Model ----------------------------
(***************************************************************************)
(* Vesty: the record store (users, images, swaps), the object store and    *)
(* the HTTP endpoints that sit in front of them.  The repository carries   *)
(* two variants of the data layer: the document store (Convex mutations    *)
(* in convex/*.ts and the routes that call them) and the relational store  *)
(* (Prisma calls against the schema of the SQL migration).  The variable   *)
(* backend says which variant a behaviour runs.                            *)
(*                                                                         *)
(* An image row keeps its url, and an object of the object store its key   *)
(* (user id, time and random part of the name).  The times of the rows     *)
(* (createdAt, updatedAt, processing*At) and the file names are not part   *)
(* of the state: a row's position in its table is its age, and no          *)
(* operation modelled here branches on a file name.                        *)
(***************************************************************************)
EXTENDS Integers, Sequences, FiniteSets, TLC

(***************************************************************************)
(* Bounds of the model.                                                    *)
(***************************************************************************)
MaxImages == 2
MaxSwaps == 1
MaxUserRows == 3
MaxStored == 3
MaxObjects == 3
MaxClock == 2
MaxHistory == 3
NumUuids == 2

(***************************************************************************)
(* Values.                                                                 *)
(***************************************************************************)
Users == {"u1", "u2"}
NoUser == "null"
NoName == "undefined"
NullName == "null"
ImageTypes == {"USER", "OUTFIT", "RESULT"}
Statuses == {"PENDING", "PROCESSING", "COMPLETED", "FAILED"}
NoStatus == "undefined"
NoImage == 0
SwapIds == 1..MaxSwaps

VARIABLES backend, users, images, swaps, objects, procs, last

vars == <<backend, users, images, swaps, objects, procs, last>>

(***************************************************************************)
(* Helpers on tables.  A table is a sequence of rows and the id of a row   *)
(* is its position; a deleted row leaves a tombstone, so that an id is     *)
(* never handed out twice (document ids and cuid()s are never reused).     *)
(* users is a sequence of rows too: the document store gives every row its *)
(* own _id, so two rows may carry the same identity id.                    *)
(***************************************************************************)
\* An object key (see generateFileKey) and the url column of an image row:
\* the address uploadToS3 returns for a key, another address, or ''.
NoKey == [userId |-> NoUser, timestamp |-> 0, uuid |-> 0, ext |-> "none"]

S3Url(key) == [kind |-> "s3", key |-> key]

OtherUrl == [kind |-> "other", key |-> NoKey]

EmptyUrl == [kind |-> "empty", key |-> NoKey]

GoneImage == [userId |-> NoUser, type |-> "GONE", url |-> EmptyUrl]

GoneSwap == [userId |-> NoUser, userImageId |-> NoImage, outfitImageId |-> NoImage,
             resultImageId |-> NoImage, status |-> "GONE", error |-> "undefined"]

LiveImage(imgs, i) == i \in 1..Len(imgs) /\ imgs[i] # GoneImage

LiveSwap(sws, s) == s \in 1..Len(sws) /\ sws[s] # GoneSwap

LiveImageIds(imgs) == {i \in 1..Len(imgs) : LiveImage(imgs, i)}

LiveSwapIds(sws) == {s \in 1..Len(sws) : LiveSwap(sws, s)}

UserRowsOf(us, id) == {i \in 1..Len(us) : us[i].id = id}

FirstUserRow(us, id) == CHOOSE i \in UserRowsOf(us, id) : \A j \in UserRowsOf(us, id) : i <= j

NoError == "undefined"

(***************************************************************************)
(* The record of the operation that made the last step.                    *)
(***************************************************************************)
Op(op, caller, status, ok, trace, target, kind, args) ==
    [op |-> op, caller |-> caller, status |-> status, ok |-> ok,
     trace |-> trace, target |-> target, kind |-> kind, args |-> args,
     again |-> last.op = op /\ last.args = args /\ last.ok /\ last.kind = "insert",
     signed |-> 0, items |-> <<>>, key |-> NoKey, pages |-> [nan |-> FALSE, n |-> 0]]

NoOp == [op |-> "none", caller |-> NoUser, status |-> 0, ok |-> TRUE,
         trace |-> <<>>, target |-> 0, kind |-> "none", args |-> <<>>, again |-> FALSE,
         signed |-> 0, items |-> <<>>, key |-> NoKey, pages |-> [nan |-> FALSE, n |-> 0]]

(***************************************************************************)
(* convex/images.ts                                                        *)
(***************************************************************************)
\* createImage: ctx.db.insert("images", {...args}); returns the new id.
ImagesInsert(imgs, userId, type, url) ==
    Append(imgs, [userId |-> userId, type |-> type, url |-> url])

\* getImageById: ctx.db.get(id), null for a row that does not exist.
GetImageById(imgs, id) == IF LiveImage(imgs, id) THEN imgs[id] ELSE GoneImage

(***************************************************************************)
(* convex/swaps.ts                                                         *)
(***************************************************************************)
\* createSwap: inserts the arguments as they are; status defaults to PENDING.
SwapsInsert(sws, userId, userImageId, outfitImageId, resultImageId, status) ==
    Append(sws, [userId |-> userId, userImageId |-> userImageId,
                 outfitImageId |-> outfitImageId, resultImageId |-> resultImageId,
                 status |-> IF status = NoStatus THEN "PENDING" ELSE status,
                 error |-> NoError])

\* updateSwapStatus: the arguments that are not undefined are patched into
\* the row; no argument is compared with what the row holds.
SwapsPatch(sws, id, status, error, resultImageId) ==
    [sws EXCEPT ![id] =
        [@ EXCEPT !.status = status,
                  !.error = IF error = NoError THEN @ ELSE error,
                  !.resultImageId = IF resultImageId = NoImage THEN @ ELSE resultImageId]]

(***************************************************************************)
(* convex/users.ts                                                         *)
(***************************************************************************)
\* createOrUpdateUser: patch the first row with this identity id or insert.
\* A patch with name: undefined removes the name; an insert without a name
\* has none.
UserExists(us, id) == UserRowsOf(us, id) # {}

UsersUpsert_InsertOnly(us, id, email, name) ==
    Append(us, [id |-> id, email |-> email, name |-> name])

UsersUpsert(us, id, email, name) ==
    IF UserExists(us, id)
    THEN [us EXCEPT ![FirstUserRow(us, id)] = [id |-> id, email |-> email, name |-> name]]
    ELSE Append(us, [id |-> id, email |-> email, name |-> name])

(***************************************************************************)
(* The public mutations of the document store, called directly.            *)
(***************************************************************************)
createImage(userId, type) ==
    /\ backend = "convex"
    /\ Len(images) < MaxImages
    /\ images' = ImagesInsert(images, userId, type, OtherUrl)
    /\ last' = Op("createImage", NoUser, 0, TRUE, <<"db.write">>, Len(images) + 1, "insert",
                  <<userId, type>>)
    /\ UNCHANGED <<backend, users, swaps, objects, procs>>

createSwap(userId, userImageId, outfitImageId, resultImageId, status) ==
    /\ backend = "convex"
    /\ Len(swaps) < MaxSwaps
    /\ swaps' = SwapsInsert(swaps, userId, userImageId, outfitImageId, resultImageId, status)
    /\ last' = Op("createSwap", NoUser, 0, TRUE, <<"db.write">>, Len(swaps) + 1, "insert",
                  <<userId, status>>)
    /\ UNCHANGED <<backend, users, images, objects, procs>>

\* ctx.db.patch throws for an id that has no row.
updateSwapStatus(id, status, error, resultImageId) ==
    /\ backend = "convex"
    /\ IF LiveSwap(swaps, id)
       THEN /\ swaps' = SwapsPatch(swaps, id, status, error, resultImageId)
            /\ last' = Op("updateSwapStatus", NoUser, 0, TRUE, <<"db.write">>, id, "update",
                          <<status, error>>)
       ELSE /\ swaps' = swaps
            /\ last' = Op("updateSwapStatus", NoUser, 0, FALSE, <<"db.write">>, id, "no row",
                          <<status, error>>)
    /\ UNCHANGED <<backend, users, images, objects, procs>>

InitEmpty ==
    /\ users = <<>>
    /\ images = <<>>
    /\ swaps = <<>>
    /\ objects = <<>>
    /\ procs = <<>>
    /\ last = NoOp

InitStore == backend = "convex" /\ InitEmpty

NextStore ==
    \/ \E u \in Users, t \in ImageTypes : createImage(u, t)
    \/ \E u \in Users, p \in LiveImageIds(images), o \in LiveImageIds(images),
          r \in {NoImage} \cup LiveImageIds(images), st \in {NoStatus, "COMPLETED"} :
            createSwap(u, p, o, r, st)
    \/ \E s \in SwapIds, st \in Statuses, e \in {NoError, "failed"},
          r \in {NoImage} \cup LiveImageIds(images) :
            /\ e # NoError => st = "FAILED"
            /\ updateSwapStatus(s, st, e, r)

SpecStore == InitStore /\ [][NextStore]_vars

(***************************************************************************)
(* The relational store: the tables and foreign keys of the migration.     *)
(***************************************************************************)
\* users_pkey and users_email_key.
PkTaken(us, id) == \E i \in 1..Len(us) : us[i].id = id

EmailTaken(us, id, email) == \E i \in 1..Len(us) : us[i].email = email /\ us[i].id # id

\* prisma.user.upsert({where: {id}, update: {email, name}, create: {...}}).
PrismaUserUpsert(us, id, email, name) ==
    IF EmailTaken(us, id, email)
    THEN [ok |-> FALSE, users |-> us, kind |-> "P2002"]
    ELSE IF PkTaken(us, id)
    THEN [ok |-> TRUE, kind |-> "update",
          users |-> [us EXCEPT ![FirstUserRow(us, id)] = [id |-> id, email |-> email, name |-> name]]]
    ELSE [ok |-> TRUE, kind |-> "insert",
          users |-> Append(us, [id |-> id, email |-> email, name |-> name])]

\* prisma.user.create({data: {id, email, name}}).
PrismaUserCreate(us, id, email, name) ==
    IF PkTaken(us, id) \/ EmailTaken(us, id, email)
    THEN [ok |-> FALSE, users |-> us, kind |-> "P2002"]
    ELSE [ok |-> TRUE, kind |-> "insert",
          users |-> Append(us, [id |-> id, email |-> email, name |-> name])]

\* swaps_userImageId_fkey, swaps_outfitImageId_fkey: ON DELETE RESTRICT.
FkRestrict(sws, ids) ==
    \E s \in LiveSwapIds(sws) : sws[s].userImageId \in ids \/ sws[s].outfitImageId \in ids

\* swaps_resultImageId_fkey: ON DELETE SET NULL.
FkSetNull(sws, ids) ==
    [s \in 1..Len(sws) |->
        IF LiveSwap(sws, s) /\ sws[s].resultImageId \in ids
        THEN [sws[s] EXCEPT !.resultImageId = NoImage] ELSE sws[s]]

RemoveImages(imgs, ids) == [i \in 1..Len(imgs) |-> IF i \in ids THEN GoneImage ELSE imgs[i]]

RemoveSwaps(sws, ids) == [s \in 1..Len(sws) |-> IF s \in ids THEN GoneSwap ELSE sws[s]]

PrismaImageDelete_NoRestrict(imgs, sws, id) ==
    IF ~LiveImage(imgs, id)
    THEN [ok |-> FALSE, images |-> imgs, swaps |-> sws]
    ELSE [ok |-> TRUE, images |-> RemoveImages(imgs, {id}), swaps |-> FkSetNull(sws, {id})]

\* prisma.image.delete({where: {id}}).
PrismaImageDelete(imgs, sws, id) ==
    IF ~LiveImage(imgs, id) \/ FkRestrict(sws, {id})
    THEN [ok |-> FALSE, images |-> imgs, swaps |-> sws]
    ELSE [ok |-> TRUE, images |-> RemoveImages(imgs, {id}), swaps |-> FkSetNull(sws, {id})]

\* prisma.user.delete({where: {id}}): images_userId_fkey and swaps_userId_fkey
\* are ON DELETE CASCADE.  The cascade into images meets the RESTRICT keys of
\* swaps: a swap of another user on one of these images stops the delete; a
\* swap of the same user is itself cascaded, and whether it is gone when the
\* RESTRICT key is checked is the database's order of the two cascades, not
\* the code's, so both outcomes are kept.
PrismaUserDelete(us, imgs, sws, id) ==
    LET ownImages == {i \in LiveImageIds(imgs) : imgs[i].userId = id}
        ownSwaps == {s \in LiveSwapIds(sws) : sws[s].userId = id}
        failed == [ok |-> FALSE, users |-> us, images |-> imgs, swaps |-> sws]
        cascaded == [ok |-> TRUE,
                     users |-> SelectSeq(us, LAMBDA r : r.id # id),
                     images |-> RemoveImages(imgs, ownImages),
                     swaps |-> FkSetNull(RemoveSwaps(sws, ownSwaps), ownImages)]
    IN  IF ~PkTaken(us, id) THEN {failed}
        ELSE IF FkRestrict(RemoveSwaps(sws, ownSwaps), ownImages) THEN {failed}
        ELSE IF FkRestrict(sws, ownImages) THEN {cascaded, failed}
        ELSE {cascaded}

\* prisma/seed.ts: the rows the seed leaves (user_test123 is u1, user_test456 u2).
SeedUsers ==
    << [id |-> "u1", email |-> "john@example.com", name |-> "John Doe"],
       [id |-> "u2", email |-> "jane@example.com", name |-> "Jane Smith"] >>

SeedImage(userId, type) == [userId |-> userId, type |-> type, url |-> OtherUrl]

SeedImages ==
    << SeedImage("u1", "USER"), SeedImage("u2", "USER"), SeedImage("u1", "OUTFIT"),
       SeedImage("u1", "OUTFIT"), SeedImage("u2", "OUTFIT"), SeedImage("u1", "RESULT") >>

SeedSwap(userId, userImageId, outfitImageId, resultImageId, status) ==
    [userId |-> userId, userImageId |-> userImageId, outfitImageId |-> outfitImageId,
     resultImageId |-> resultImageId, status |-> status, error |-> NoError]

SeedSwaps ==
    << SeedSwap("u1", 1, 3, 6, "COMPLETED"), SeedSwap("u1", 1, 4, NoImage, "PENDING"),
       SeedSwap("u2", 2, 5, NoImage, "FAILED") >>

(***************************************************************************)
(* lib/user-sync.ts, both variants.                                        *)
(***************************************************************************)
\* The args validator of createOrUpdateUser: name is v.optional(v.string()),
\* which takes a string or undefined and refuses null.
ConvexUpsertUser(us, id, email, name) ==
    IF name = NullName
    THEN [ok |-> FALSE, users |-> us, kind |-> "ArgumentValidationError"]
    ELSE [ok |-> TRUE, users |-> UsersUpsert(us, id, email, name),
          kind |-> IF UserExists(us, id) THEN "update" ELSE "insert"]

\* [first_name, last_name].filter(Boolean).join(' ') || null
FirstNames == {NullName, "John"}

LastNames == {NullName, "Doe"}

JoinName(first, lastName) ==
    CASE first = NullName /\ lastName = NullName -> NullName
      [] first # NullName /\ lastName = NullName -> first
      [] first = NullName /\ lastName # NullName -> lastName
      [] OTHER -> "John Doe"

\* syncUserFromClerk: throws without an email address, else upserts.
syncUserFromClerk(be, us, clerkUser) ==
    IF clerkUser.email = ""
    THEN [ok |-> FALSE, users |-> us, kind |-> "no email"]
    ELSE IF be = "prisma"
    THEN PrismaUserUpsert(us, clerkUser.id, clerkUser.email,
                          JoinName(clerkUser.first, clerkUser.lastName))
    ELSE ConvexUpsertUser(us, clerkUser.id, clerkUser.email,
                          JoinName(clerkUser.first, clerkUser.lastName))

\* deleteUserFromDb: the relational variant deletes the user row and lets the
\* foreign keys cascade; the document-store variant only logs.
deleteUserFromDb(be, us, imgs, sws, userId) ==
    IF be = "prisma"
    THEN PrismaUserDelete(us, imgs, sws, userId)
    ELSE {[ok |-> TRUE, users |-> us, images |-> imgs, swaps |-> sws]}

(***************************************************************************)
(* app/api/webhooks/clerk/route.ts                                         *)
(***************************************************************************)
ClerkUsers ==
    [id : Users, email : {"", "john@example.com"}, first : FirstNames, lastName : LastNames]

EventTypes == {"user.created", "user.updated", "user.deleted", "session.created"}

WebhookArgs(eventType, data, headersPresent, verified) ==
    <<eventType, data.id, data.email, data.first, data.lastName, headersPresent, verified>>

WebhookAccepted_HeadersOnly(headersPresent, verified) == headersPresent

\* The three svix headers are there and wh.verify did not throw.
WebhookAccepted(headersPresent, verified) == headersPresent /\ verified

webhookPOST(headersPresent, verified, eventType, data) ==
    /\ UNCHANGED <<backend, objects, procs>>
    /\ IF ~WebhookAccepted(headersPresent, verified)
       THEN /\ UNCHANGED <<users, images, swaps>>
            /\ last' = Op("webhook", NoUser, 400, FALSE, <<>>, 0, "rejected",
                          WebhookArgs(eventType, data, headersPresent, verified))
       ELSE IF eventType \in {"user.created", "user.updated"}
       THEN LET r == syncUserFromClerk(backend, users, data)
            IN  /\ Len(r.users) <= MaxUserRows
                /\ users' = r.users
                /\ UNCHANGED <<images, swaps>>
                /\ last' = Op("webhook", NoUser, IF r.ok THEN 200 ELSE 500, r.ok,
                              IF data.email = "" THEN <<>> ELSE <<"db.write">>, 0, r.kind,
                              WebhookArgs(eventType, data, headersPresent, verified))
       ELSE IF eventType = "user.deleted"
       THEN \E r \in deleteUserFromDb(backend, users, images, swaps, data.id) :
                /\ users' = r.users
                /\ images' = r.images
                /\ swaps' = r.swaps
                /\ last' = Op("webhook", NoUser, IF r.ok THEN 200 ELSE 500, r.ok,
                              IF backend = "prisma" THEN <<"db.write">> ELSE <<>>, 0,
                              "deleted", WebhookArgs(eventType, data, headersPresent, verified))
       ELSE /\ UNCHANGED <<users, images, swaps>>
            /\ last' = Op("webhook", NoUser, 200, TRUE, <<>>, 0, "unhandled",
                          WebhookArgs(eventType, data, headersPresent, verified))

\* createOrUpdateUser called directly.
createOrUpdateUser(id, email, name) ==
    /\ backend = "convex"
    /\ LET r == ConvexUpsertUser(users, id, email, name)
       IN  /\ Len(r.users) <= MaxUserRows
           /\ users' = r.users
           /\ last' = Op("createOrUpdateUser", NoUser, 0, r.ok, <<"db.write">>, 0, r.kind,
                         <<id, email, name>>)
    /\ UNCHANGED <<backend, images, swaps, objects, procs>>

InitUsers == backend \in {"convex", "prisma"} /\ InitEmpty

NextUsers ==
    \/ \E id \in Users, email \in {"", "john@example.com"}, name \in {NoName, NullName, "John Doe"} :
          createOrUpdateUser(id, email, name)
    \/ \E h \in BOOLEAN, v \in BOOLEAN, t \in EventTypes, d \in ClerkUsers :
          webhookPOST(h, v, t, d)

SpecUsers == InitUsers /\ [][NextUsers]_vars

(***************************************************************************)
(* app/api/upload/route.ts: DELETE, both variants.                         *)
(***************************************************************************)
Unauthenticated_Never(userId) == FALSE

\* if (!userId) return 401
Unauthenticated(userId) == userId = NoUser

\* api.images.deleteImage is called by the route; the mutation itself is not
\* in convex/images.ts.  It is modelled from the data model of the design:
\* an image a swap references as person or outfit image is not deleted, and
\* deleting a result image clears the result reference of its swaps.
deleteImage(imgs, sws, id) ==
    IF ~LiveImage(imgs, id)
          \/ \E s \in LiveSwapIds(sws) : sws[s].userImageId = id \/ sws[s].outfitImageId = id
    THEN [ok |-> FALSE, images |-> imgs, swaps |-> sws]
    ELSE [ok |-> TRUE, images |-> RemoveImages(imgs, {id}),
          swaps |-> [s \in 1..Len(sws) |->
                        IF LiveSwap(sws, s) /\ sws[s].resultImageId = id
                        THEN [sws[s] EXCEPT !.resultImageId = NoImage] ELSE sws[s]]]

OwnImage_AnyOwner(imgs, userId, id) == LiveImage(imgs, id)

\* The row the route finds: getImageById and the userId comparison, or
\* prisma.image.findFirst({where: {id, userId}}).
OwnImage(imgs, userId, id) == LiveImage(imgs, id) /\ imgs[id].userId = userId

\* What DELETE answers and leaves in a given store: the status, the message
\* of the body (kind) and the image and swap rows afterwards.
DeleteResponse(be, imgs, sws, caller, imageId) ==
    IF Unauthenticated(caller)
    THEN [status |-> 401, kind |-> "auth", trace |-> <<>>, images |-> imgs, swaps |-> sws]
    ELSE IF imageId = NoImage
    THEN [status |-> 400, kind |-> "no id", trace |-> <<>>, images |-> imgs, swaps |-> sws]
    ELSE IF ~OwnImage(imgs, caller, imageId)
    THEN [status |-> 404, kind |-> "not found", trace |-> <<"db.read">>,
          images |-> imgs, swaps |-> sws]
    ELSE LET r == IF be = "prisma" THEN PrismaImageDelete(imgs, sws, imageId)
                  ELSE deleteImage(imgs, sws, imageId)
         IN  [status |-> IF r.ok THEN 200 ELSE 500,
              kind |-> IF ~r.ok THEN "restricted"
                       ELSE IF r.swaps # sws THEN "set null" ELSE "deleted",
              trace |-> <<"db.read", "db.write">>, images |-> r.images, swaps |-> r.swaps]

uploadDELETE(caller, imageId) ==
    LET r == DeleteResponse(backend, images, swaps, caller, imageId)
    IN  /\ UNCHANGED <<backend, users, objects, procs>>
        /\ images' = r.images
        /\ swaps' = r.swaps
        /\ last' = Op("DELETE /api/upload", caller, r.status, r.status = 200, r.trace, imageId,
                      r.kind, <<>>)

(***************************************************************************)
(* lib/aws-s3.ts                                                           *)
(***************************************************************************)
MAX_FILE_SIZE == 5 * 1024 * 1024

MIN_FILE_SIZE == 1024

ALLOWED_FILE_TYPES == {"image/jpeg", "image/jpg", "image/png", "image/webp"}

ALLOWED_EXTENSIONS == {"jpg", "jpeg", "png", "webp"}

\* A File of the form data: its byte size, content type, the extension of its
\* name and the pixel size sharp reads from its bytes.  formData.get gives
\* null for a field that was not sent.
NoFile == [size |-> -1, type |-> "null", ext |-> "null", width |-> 0, height |-> 0]

GoodFile == [size |-> MIN_FILE_SIZE, type |-> "image/png", ext |-> "png",
             width |-> 100, height |-> 100]

Files ==
    {GoodFile,
     [GoodFile EXCEPT !.size = MIN_FILE_SIZE - 1],
     [GoodFile EXCEPT !.size = MAX_FILE_SIZE + 1],
     [GoodFile EXCEPT !.size = MAX_FILE_SIZE, !.type = "image/webp", !.ext = "webp"],
     [GoodFile EXCEPT !.type = "image/gif"],
     [GoodFile EXCEPT !.ext = "gif"],
     [GoodFile EXCEPT !.width = 99]}

validateFile_ExclusiveMax(file) ==
    IF file.size >= MAX_FILE_SIZE THEN "File size too large"
    ELSE IF file.size < MIN_FILE_SIZE THEN "File size too small"
    ELSE IF file.type \notin ALLOWED_FILE_TYPES THEN "File type not supported"
    ELSE IF file.ext \notin ALLOWED_EXTENSIONS THEN "File extension not supported"
    ELSE NoError

\* validateFile: the error of the first check that fails, undefined if none.
validateFile(file) ==
    IF file.size > MAX_FILE_SIZE THEN "File size too large"
    ELSE IF file.size < MIN_FILE_SIZE THEN "File size too small"
    ELSE IF file.type \notin ALLOWED_FILE_TYPES THEN "File type not supported"
    ELSE IF file.ext \notin ALLOWED_EXTENSIONS THEN "File extension not supported"
    ELSE NoError

\* generateFileKey: images/<userId>/<timestamp>-<uuid>.<extension>, where
\* timestamp is Date.now() and uuid the first group (8 hex digits) of a
\* uuidv4().
generateFileKey(ext, userId, timestamp, uuid) ==
    [userId |-> userId, timestamp |-> timestamp, uuid |-> uuid, ext |-> ext]

\* The clock and the random digits of a request of the endpoints: every put
\* of the endpoints happens in a millisecond of its own.
NowOf(objs) == Len(objs) + 1

FirstUuid == 0

\* uploadToS3: one PutObject; a rejected PutObject stores nothing.  objects
\* is the sequence of the puts the bucket took: a put with the key of an
\* earlier put replaces the object of that put.
uploadToS3(objs, key, putOk) ==
    IF putOk
    THEN [success |-> TRUE, objects |-> Append(objs, key), trace |-> <<"s3.put">>,
          url |-> S3Url(key)]
    ELSE [success |-> FALSE, objects |-> objs, trace |-> <<"s3.put">>, url |-> EmptyUrl]

\* uploadFileToS3: validateFile first, then the upload.
uploadFileToS3(objs, file, userId, putOk) ==
    IF validateFile(file) # NoError
    THEN [success |-> FALSE, objects |-> objs, trace |-> <<>>, url |-> EmptyUrl]
    ELSE uploadToS3(objs, generateFileKey(file.ext, userId, NowOf(objs), FirstUuid), putOk)

\* uploadBase64ToS3, for the generated image.
uploadBase64ToS3(objs, ext, userId, putOk) ==
    uploadToS3(objs, generateFileKey(ext, userId, NowOf(objs), FirstUuid), putOk)

(***************************************************************************)
(* lib/image-processing.ts                                                 *)
(***************************************************************************)
\* validateImageBuffer: no metadata (width 0 here), or a side under 100 or
\* over 5000 pixels.
validateImageBuffer(file) ==
    IF file.width = 0 \/ file.height = 0 THEN "Invalid image format or corrupted file"
    ELSE IF file.width < 100 \/ file.height < 100 THEN "Image too small"
    ELSE IF file.width > 5000 \/ file.height > 5000 THEN "Image too large"
    ELSE NoError

calculateOptimalSettings_InclusiveTiers(fileSize) ==
    IF fileSize >= 3 * 1024 * 1024
    THEN [maxWidth |-> 1600, maxHeight |-> 900, quality |-> 70, format |-> "webp"]
    ELSE IF fileSize >= 1024 * 1024
    THEN [maxWidth |-> 1920, maxHeight |-> 1080, quality |-> 80, format |-> "webp"]
    ELSE [maxWidth |-> 1920, maxHeight |-> 1080, quality |-> 85, format |-> "jpeg"]

\* calculateOptimalSettings: the compression settings for a byte size.
calculateOptimalSettings(fileSize) ==
    IF fileSize > 3 * 1024 * 1024
    THEN [maxWidth |-> 1600, maxHeight |-> 900, quality |-> 70, format |-> "webp"]
    ELSE IF fileSize > 1024 * 1024
    THEN [maxWidth |-> 1920, maxHeight |-> 1080, quality |-> 80, format |-> "webp"]
    ELSE [maxWidth |-> 1920, maxHeight |-> 1080, quality |-> 85, format |-> "jpeg"]

(***************************************************************************)
(* services/ai-service.ts                                                  *)
(***************************************************************************)
\* What the two model calls of performOutfitSwap answer.
AiAnswers == {"image", "describe error", "empty description", "generate error", "no image"}

\* performOutfitSwap: analyzeOutfitImage, then generateSwappedImage; a failed
\* generation request makes one more (fallback) request and still fails.  A
\* description response without text gives the description '' and the
\* generation goes on with it.
performOutfitSwap(ai) ==
    CASE ai = "describe error" -> [success |-> FALSE, trace |-> <<"ai.describe">>]
      [] ai = "generate error" ->
            [success |-> FALSE, trace |-> <<"ai.describe", "ai.generate", "ai.fallback">>]
      [] ai = "no image" -> [success |-> FALSE, trace |-> <<"ai.describe", "ai.generate">>]
      [] OTHER -> [success |-> TRUE, trace |-> <<"ai.describe", "ai.generate">>]

(***************************************************************************)
(* What a request meets outside the program: the answer of the AI model,   *)
(* whether the S3 environment variables are set (validateS3Config) and     *)
(* which PutObject, if any, is refused.  At most one of them goes wrong.    *)
(***************************************************************************)
EnvOk == [ai |-> "image", s3Config |-> TRUE, putFails |-> "none"]

Envs ==
    {EnvOk} \cup {[EnvOk EXCEPT !.ai = a] : a \in AiAnswers}
            \cup {[EnvOk EXCEPT !.s3Config = FALSE]}
            \cup {[EnvOk EXCEPT !.putFails = p] : p \in {"person", "outfit", "result"}}

\* currentUser(): the profile the identity provider holds.
ClerkProfile(userId) ==
    IF userId = "u1"
    THEN [id |-> "u1", email |-> "john@example.com", first |-> "John", lastName |-> "Doe"]
    ELSE [id |-> userId, email |-> "", first |-> NullName, lastName |-> NullName]

(***************************************************************************)
(* Numbers of the query string and lists, as the list endpoints use them.  *)
(***************************************************************************)
\* A parameter of the query string: not sent (or sent empty), sent with a
\* text that is no number, or sent with an integer.
Absent == [kind |-> "absent", n |-> 0]

Text == [kind |-> "text", n |-> 0]

Num(n) == [kind |-> "number", n |-> n]

NaN == [nan |-> TRUE, n |-> 0]

\* parseInt(searchParams.get(name) || default)
ParseIntOr(param, default) ==
    IF param.kind = "absent" THEN [nan |-> FALSE, n |-> default]
    ELSE IF param.kind = "text" THEN NaN
    ELSE [nan |-> FALSE, n |-> param.n]

\* a + b and a * b of two numbers: NaN if one of them is.
JsAdd(a, b) == IF a.nan \/ b.nan THEN NaN ELSE [nan |-> FALSE, n |-> a.n + b.n]

JsMul(a, b) == IF a.nan \/ b.nan THEN NaN ELSE [nan |-> FALSE, n |-> a.n * b.n]

\* Array.prototype.slice(start, end): NaN counts as 0, a negative index counts
\* from the end, and both are clamped to the array.
RelativeIndex(len, x) ==
    LET k == IF x.nan THEN 0 ELSE x.n
    IN  IF k < 0 THEN (IF len + k < 0 THEN 0 ELSE len + k)
        ELSE IF k > len THEN len ELSE k

ArraySlice(seq, start, end) ==
    SubSeq(seq, RelativeIndex(Len(seq), start) + 1, RelativeIndex(Len(seq), end))

\* The ids of a set of rows, the newest (largest) first.
RECURSIVE NewestFirst(_)
NewestFirst(ids) ==
    IF ids = {} THEN <<>>
    ELSE LET m == CHOOSE x \in ids : \A y \in ids : y <= x
         IN  <<m>> \o NewestFirst(ids \ {m})

(***************************************************************************)
(* app/api/upload/route.ts: ensureUserExists and POST, both variants.      *)
(***************************************************************************)
\* firstName && lastName ? `${firstName} ${lastName}` : firstName || lastName
ProfileName(c) ==
    IF c.first # NullName /\ c.lastName # NullName THEN "John Doe"
    ELSE IF c.first # NullName THEN c.first
    ELSE c.lastName

\* The lookup of ensureUserExists: getUserById, or prisma.user.findUnique.
EnsureLookup(be, us, userId) == IF be = "prisma" THEN PkTaken(us, userId) ELSE UserExists(us, userId)

\* The create of ensureUserExists, run when the lookup found no row: the
\* document store is given createOrUpdateUser (without a name if the profile
\* has none), the relational store prisma.user.create.
EnsureCreate(be, us, userId) ==
    LET c == ClerkProfile(userId)
    IN  IF be = "prisma"
        THEN PrismaUserCreate(us, userId, c.email, ProfileName(c))
        ELSE ConvexUpsertUser(us, userId, c.email,
                              IF ProfileName(c) = NullName THEN NoName ELSE ProfileName(c))

ensureUserExists(be, us, userId) ==
    IF EnsureLookup(be, us, userId)
    THEN [ok |-> TRUE, users |-> us, trace |-> <<"db.read">>]
    ELSE LET r == EnsureCreate(be, us, userId)
         IN  [ok |-> r.ok, users |-> r.users,
              trace |-> IF be = "prisma" \/ ~r.ok THEN <<"db.read", "db.write">>
                        ELSE <<"db.read", "db.write", "db.read">>]

\* An insert of the routes stays within the bounds of the model.
WithinBounds(us, imgs, sws, objs) ==
    /\ Len(us) <= MaxUserRows
    /\ Len(imgs) <= MaxStored \/ Len(imgs) = Len(images)
    /\ Len(sws) <= MaxSwaps \/ Len(sws) = Len(swaps)
    /\ Len(objs) <= MaxObjects

uploadPOST(caller, file, env) ==
    LET R(status, kind, trace, target) ==
            Op("POST /api/upload", caller, status, status = 200, trace, target, kind, <<file>>)
    IN
    /\ UNCHANGED <<backend, swaps, procs>>
    /\ IF Unauthenticated(caller)
       THEN /\ UNCHANGED <<users, images, objects>>
            /\ last' = R(401, "auth", <<>>, 0)
       ELSE LET e == ensureUserExists(backend, users, caller)
            IN
            /\ users' = e.users
            /\ IF ~e.ok
               THEN /\ UNCHANGED <<images, objects>>
                    /\ last' = R(500, "ensure user", e.trace, 0)
               ELSE IF ~env.s3Config
               THEN /\ UNCHANGED <<images, objects>>
                    /\ last' = R(500, "s3 config", e.trace, 0)
               ELSE IF file = NoFile
               THEN /\ UNCHANGED <<images, objects>>
                    /\ last' = R(400, "no file", e.trace, 0)
               ELSE IF validateFile(file) # NoError
               THEN /\ UNCHANGED <<images, objects>>
                    /\ last' = R(400, "validateFile", e.trace, 0)
               ELSE IF validateImageBuffer(file) # NoError
               THEN /\ UNCHANGED <<images, objects>>
                    /\ last' = R(400, "validateImageBuffer", e.trace, 0)
               ELSE LET up == uploadToS3(objects,
                                         generateFileKey(file.ext, caller, NowOf(objects),
                                                         FirstUuid),
                                         env.putFails # "person")
                    IN  /\ objects' = up.objects
                        /\ IF ~up.success
                           THEN /\ UNCHANGED images
                                /\ last' = R(500, "s3 put", e.trace \o up.trace, 0)
                           ELSE /\ images' = ImagesInsert(images, caller, "USER", up.url)
                                /\ last' = R(200, "created",
                                             e.trace \o up.trace \o
                                               (IF backend = "prisma" THEN <<"db.write">>
                                                ELSE <<"db.write", "db.read">>),
                                             Len(images) + 1)
    /\ WithinBounds(users', images', swaps', objects')

\* getImagesByUser and getImagesByUserAndType of convex/images.ts, and the
\* where clause {userId, type} of the relational variant: the ids of the
\* rows of a user, of one type if a type of the enumeration is given.
getImagesByUser(imgs, userId) == {i \in LiveImageIds(imgs) : imgs[i].userId = userId}

getImagesByUserAndType(imgs, userId, type) ==
    {i \in LiveImageIds(imgs) : imgs[i].userId = userId /\ imgs[i].type = type}

\* GET /api/upload: the caller's images of type USER, the newest first.
uploadGET(caller) ==
    LET list == NewestFirst(getImagesByUserAndType(images, caller, "USER"))
    IN
    /\ UNCHANGED <<backend, users, images, swaps, objects, procs>>
    /\ IF Unauthenticated(caller)
       THEN last' = Op("GET /api/upload", caller, 401, FALSE, <<>>, 0, "auth", <<>>)
       ELSE last' = [Op("GET /api/upload", caller, 200, TRUE, <<"db.read">>, Len(list),
                        "list", <<>>) EXCEPT !.items = list]

(***************************************************************************)
(* app/api/swap/route.ts (document store only).                            *)
(***************************************************************************)
\* The checks the route makes itself before it calls the AI service.
SwapRouteCheck(personImage, outfitImage) ==
    IF outfitImage = NoFile \/ personImage = NoFile THEN "required"
    ELSE IF outfitImage.type \notin ALLOWED_FILE_TYPES \/ personImage.type \notin ALLOWED_FILE_TYPES
    THEN "Invalid file type"
    ELSE IF outfitImage.size > MAX_FILE_SIZE \/ personImage.size > MAX_FILE_SIZE
    THEN "File size too large"
    ELSE NoError

\* What POST does once the AI service has answered with an image and the S3
\* configuration is valid: the user upsert with an empty email, the two
\* uploads, the image rows, the upload and row of the result, the swap row.
SwapStore(us, imgs, sws, objs, userId, personImage, outfitImage, env) ==
    LET us1 == UsersUpsert(us, userId, "", NoName)
        person == uploadFileToS3(objs, personImage, userId, env.putFails # "person")
        outfit == uploadFileToS3(person.objects, outfitImage, userId, env.putFails # "outfit")
        imgs1 == ImagesInsert(imgs, userId, "USER", person.url)
        imgs2 == ImagesInsert(imgs1, userId, "OUTFIT", outfit.url)
        result == uploadBase64ToS3(outfit.objects, "png", userId, env.putFails # "result")
        imgs3 == IF result.success THEN ImagesInsert(imgs2, userId, "RESULT", result.url)
                 ELSE imgs2
        resultImageId == IF result.success THEN Len(imgs3) ELSE NoImage
        sws1 == SwapsInsert(sws, userId, Len(imgs1), Len(imgs2), resultImageId, "COMPLETED")
        sws2 == SwapsPatch(sws1, Len(sws1), "COMPLETED", NoError, NoImage)
    IN  IF ~person.success
        THEN [status |-> 500, kind |-> "person upload", users |-> us1, images |-> imgs,
              swaps |-> sws, objects |-> person.objects, target |-> 0,
              trace |-> <<"db.write">> \o person.trace]
        ELSE IF ~outfit.success
        THEN [status |-> 500, kind |-> "outfit upload", users |-> us1, images |-> imgs,
              swaps |-> sws, objects |-> outfit.objects, target |-> 0,
              trace |-> <<"db.write">> \o person.trace \o outfit.trace]
        ELSE [status |-> 200, kind |-> "completed", users |-> us1, images |-> imgs3,
              swaps |-> sws2, objects |-> result.objects, target |-> Len(sws2),
              trace |-> <<"db.write">> \o person.trace \o outfit.trace
                          \o <<"db.write", "db.write">> \o result.trace
                          \o (IF result.success THEN <<"db.write">> ELSE <<>>)
                          \o <<"db.write", "db.write">>
                          \o (IF result.success THEN <<"db.read">> ELSE <<>>)]

swapPOST(caller, personImage, outfitImage, env) ==
    LET R(status, kind, trace, target) ==
            Op("POST /api/swap", caller, status, status = 200, trace, target, kind,
               <<personImage, outfitImage, env.ai>>)
        swapResult == performOutfitSwap(env.ai)
        st == SwapStore(users, images, swaps, objects, caller, personImage, outfitImage, env)
    IN
    /\ backend = "convex"
    /\ UNCHANGED <<backend, procs>>
    /\ IF Unauthenticated(caller)
       THEN /\ UNCHANGED <<users, images, swaps, objects>>
            /\ last' = R(401, "auth", <<>>, 0)
       ELSE IF SwapRouteCheck(personImage, outfitImage) # NoError
       THEN /\ UNCHANGED <<users, images, swaps, objects>>
            /\ last' = R(400, SwapRouteCheck(personImage, outfitImage), <<>>, 0)
       ELSE IF ~swapResult.success
       THEN /\ UNCHANGED <<users, images, swaps, objects>>
            /\ last' = R(500, "ai", swapResult.trace, 0)
       ELSE IF ~env.s3Config
       THEN /\ UNCHANGED <<users, images, swaps, objects>>
            /\ last' = R(500, "s3 config", swapResult.trace, 0)
       ELSE /\ users' = st.users
            /\ images' = st.images
            /\ swaps' = st.swaps
            /\ objects' = st.objects
            /\ last' = R(st.status, st.kind, swapResult.trace \o st.trace, st.target)
    /\ WithinBounds(users', images', swaps', objects')

\* getSwapsByUser: the index by_userId, order("desc"), collect().
getSwapsByUser(sws, userId) == NewestFirst({x \in LiveSwapIds(sws) : sws[x].userId = userId})

\* GET /api/swap: a page of the caller's COMPLETED swaps and their number.
swapGET(caller, limitParam, offsetParam) ==
    LET limit == ParseIntOr(limitParam, 10)
        offset == ParseIntOr(offsetParam, 0)
        allSwaps == getSwapsByUser(swaps, caller)
        completedSwaps == SelectSeq(allSwaps, LAMBDA x : swaps[x].status = "COMPLETED")
        paginatedSwaps == ArraySlice(completedSwaps, offset, JsAdd(offset, limit))
    IN
    /\ backend = "convex"
    /\ UNCHANGED <<backend, users, images, swaps, objects, procs>>
    /\ IF Unauthenticated(caller)
       THEN last' = Op("GET /api/swap", caller, 401, FALSE, <<>>, 0, "auth",
                       <<limitParam, offsetParam>>)
       ELSE last' = [Op("GET /api/swap", caller, 200, TRUE, <<"db.read">>, Len(completedSwaps),
                        "list", <<limitParam, offsetParam>>) EXCEPT !.items = paginatedSwaps]

(***************************************************************************)
(* app/api/images/route.ts, both variants.                                 *)
(***************************************************************************)
\* The relational variant reads userId from auth() without awaiting it: with
\* an auth() that returns a promise the route sees no user id at all.
AuthSeen(be, caller) == IF be = "prisma" THEN {caller, NoUser} ELSE {caller}

PageStart_ZeroBased(page, limit) == JsMul(page, limit)

\* (page - 1) * limit
PageStart(page, limit) == JsMul(JsAdd(page, [nan |-> FALSE, n |-> -1]), limit)

\* Math.ceil(total / limit) as JSON shows it: null (nan here) for a limit
\* that is 0 or NaN.
MathCeilDiv(total, limit) ==
    IF limit.nan \/ limit.n = 0 THEN NaN
    ELSE IF limit.n > 0 THEN [nan |-> FALSE, n |-> (total + limit.n - 1) \div limit.n]
    ELSE [nan |-> FALSE, n |-> 0 - (total \div (0 - limit.n))]

\* prisma.image.findMany({orderBy, skip, take}) with take >= 0: a skip or
\* take that is no number, and a negative skip, are refused.
PrismaFindMany(list, skip, take) ==
    IF skip.nan \/ take.nan \/ skip.n < 0
    THEN [ok |-> FALSE, rows |-> <<>>]
    ELSE [ok |-> TRUE,
          rows |-> SubSeq(list, skip.n + 1,
                          IF skip.n + take.n > Len(list) THEN Len(list) ELSE skip.n + take.n)]

\* What GET /api/images answers to a user id: the page, total and pages.
ImagesPage(be, imgs, userId, type, pageParam, limitParam) ==
    LET page == ParseIntOr(pageParam, 1)
        limit == ParseIntOr(limitParam, 10)
        list == NewestFirst(IF type \in ImageTypes
                            THEN getImagesByUserAndType(imgs, userId, type)
                            ELSE getImagesByUser(imgs, userId))
        found == PrismaFindMany(list, PageStart(page, limit), limit)
    IN  IF be = "prisma" /\ ~found.ok
        THEN [status |-> 500, items |-> <<>>, total |-> 0, pages |-> NaN]
        ELSE [status |-> 200,
              items |-> IF be = "prisma" THEN found.rows
                        ELSE ArraySlice(list, PageStart(page, limit), JsMul(page, limit)),
              total |-> Len(list),
              pages |-> MathCeilDiv(Len(list), limit)]

imagesGET(caller, type, pageParam, limitParam) ==
    /\ UNCHANGED <<backend, users, images, swaps, objects, procs>>
    /\ \E userId \in AuthSeen(backend, caller) :
          IF Unauthenticated(userId)
          THEN last' = Op("GET /api/images", caller, 401, FALSE, <<>>, 0, "auth",
                          <<type, pageParam, limitParam>>)
          ELSE LET r == ImagesPage(backend, images, userId, type, pageParam, limitParam)
               IN  last' = [Op("GET /api/images", caller, r.status, r.status = 200,
                               <<"db.read">>, r.total, "list", <<type, pageParam, limitParam>>)
                            EXCEPT !.items = r.items, !.pages = r.pages]

ImageOwner_FromBody(userId, bodyUserId) == bodyUserId

\* The userId of the row POST /api/images creates: the one of auth(); a
\* userId in the body of the request is not read.
ImageOwner(userId, bodyUserId) == userId

\* images_userId_fkey: the relational store refuses a row of a user it does
\* not hold; the document store inserts what it is given.
imagesPOST(caller, type, url, bodyUserId) ==
    /\ UNCHANGED <<backend, users, swaps, objects, procs>>
    /\ \E userId \in AuthSeen(backend, caller) :
          IF Unauthenticated(userId)
          THEN /\ UNCHANGED images
               /\ last' = Op("POST /api/images", caller, 401, FALSE, <<>>, 0, "auth", <<type, url>>)
          ELSE IF type = "" \/ url = EmptyUrl
          THEN /\ UNCHANGED images
               /\ last' = Op("POST /api/images", caller, 400, FALSE, <<>>, 0, "missing", <<type, url>>)
          ELSE IF type \notin ImageTypes
          THEN /\ UNCHANGED images
               /\ last' = Op("POST /api/images", caller, 400, FALSE, <<>>, 0, "type", <<type, url>>)
          ELSE IF backend = "prisma" /\ ~PkTaken(users, userId)
          THEN /\ UNCHANGED images
               /\ last' = Op("POST /api/images", caller, 500, FALSE, <<"db.write">>, 0, "P2003",
                             <<type, url>>)
          ELSE /\ images' = ImagesInsert(images, ImageOwner(userId, bodyUserId), type, url)
               /\ last' = Op("POST /api/images", caller, 200, TRUE,
                             IF backend = "prisma" THEN <<"db.write">> ELSE <<"db.write", "db.read">>,
                             Len(images) + 1, "created", <<type, url>>)
    /\ WithinBounds(users', images', swaps', objects')

(***************************************************************************)
(* app/api/images/presigned/route.ts (document store only).                *)
(***************************************************************************)
\* searchParams.get('action') || 'view': no action parameter ("" here) is view.
ActionOrView(action) == IF action = "" THEN "view" ELSE action

\* image.url.split('.amazonaws.com/')[1]: what follows the host of an S3
\* address, undefined for an address without that host.
S3KeyOf(url) == IF url.kind = "s3" THEN url.key ELSE NoKey

PresignedTtl_Always3600(action) == 3600

\* const expiresIn = action === 'download' ? 300 : 3600
PresignedTtl(action) == IF action = "download" THEN 300 ELSE 3600

PresignedResponse_NoOwnerCheck(imgs, caller, imageId, action, signOk) ==
    IF Unauthenticated(caller)
    THEN [status |-> 401, kind |-> "auth", trace |-> <<>>, expiresIn |-> 0, signed |-> 0, key |-> NoKey]
    ELSE IF imageId = NoImage
    THEN [status |-> 400, kind |-> "no id", trace |-> <<>>, expiresIn |-> 0, signed |-> 0, key |-> NoKey]
    ELSE IF ~LiveImage(imgs, imageId)
    THEN [status |-> 404, kind |-> "not found", trace |-> <<"db.read">>,
          expiresIn |-> 0, signed |-> 0, key |-> NoKey]
    ELSE IF S3KeyOf(GetImageById(imgs, imageId).url) = NoKey
    THEN [status |-> 500, kind |-> "url format", trace |-> <<"db.read">>,
          expiresIn |-> 0, signed |-> 0, key |-> NoKey]
    ELSE [status |-> 200, kind |-> "signed", trace |-> <<"db.read", "s3.sign">>,
          expiresIn |-> PresignedTtl(ActionOrView(action)),
          signed |-> PresignedTtl(ActionOrView(action)),
          key |-> S3KeyOf(GetImageById(imgs, imageId).url)]

\* What GET answers: the status, the message of the body (kind), the
\* expiresIn of the body, and the expiry and the key generatePresignedUrl
\* signed with.
PresignedResponse(imgs, caller, imageId, action, signOk) ==
    LET expiresIn == PresignedTtl(ActionOrView(action))
        s3Key == S3KeyOf(GetImageById(imgs, imageId).url)
    IN  IF Unauthenticated(caller)
        THEN [status |-> 401, kind |-> "auth", trace |-> <<>>, expiresIn |-> 0, signed |-> 0, key |-> NoKey]
        ELSE IF imageId = NoImage
        THEN [status |-> 400, kind |-> "no id", trace |-> <<>>, expiresIn |-> 0, signed |-> 0, key |-> NoKey]
        ELSE IF ~LiveImage(imgs, imageId)
        THEN [status |-> 404, kind |-> "not found", trace |-> <<"db.read">>,
              expiresIn |-> 0, signed |-> 0, key |-> NoKey]
        ELSE IF GetImageById(imgs, imageId).userId # caller
        THEN [status |-> 403, kind |-> "denied", trace |-> <<"db.read">>,
              expiresIn |-> 0, signed |-> 0, key |-> NoKey]
        ELSE IF s3Key = NoKey
        THEN [status |-> 500, kind |-> "url format", trace |-> <<"db.read">>,
              expiresIn |-> 0, signed |-> 0, key |-> NoKey]
        ELSE IF ~signOk
        THEN [status |-> 500, kind |-> "sign", trace |-> <<"db.read", "s3.sign">>,
              expiresIn |-> 0, signed |-> expiresIn, key |-> s3Key]
        ELSE [status |-> 200, kind |-> "signed", trace |-> <<"db.read", "s3.sign">>,
              expiresIn |-> expiresIn, signed |-> expiresIn, key |-> s3Key]

presignedGET(caller, imageId, action, signOk) ==
    LET r == PresignedResponse(images, caller, imageId, action, signOk)
    IN  /\ backend = "convex"
        /\ UNCHANGED <<backend, users, images, swaps, objects, procs>>
        /\ last' = [Op("GET /api/images/presigned", caller, r.status, r.status = 200, r.trace,
                       r.expiresIn, r.kind, <<imageId, action>>)
                       EXCEPT !.signed = r.signed, !.key = r.key]

(***************************************************************************)
(* Deletions: the relational store starts from the rows of the seed, the   *)
(* document store is filled through its mutations.                         *)
(***************************************************************************)
InitSeed ==
    /\ backend = "prisma"
    /\ users = SeedUsers
    /\ images = SeedImages
    /\ swaps = SeedSwaps
    /\ objects = <<>>
    /\ procs = <<>>
    /\ last = NoOp

InitCascade == InitSeed \/ (backend = "convex" /\ InitEmpty)

NextCascade ==
    \/ \E c \in Users, e \in {EnvOk, [EnvOk EXCEPT !.putFails = "result"]} :
          swapPOST(c, GoodFile, GoodFile, e)
    \/ \E c \in Users : uploadPOST(c, GoodFile, EnvOk)
    \/ \E c \in Users \cup {NoUser}, i \in {NoImage} \cup (1..Len(images)) : uploadDELETE(c, i)
    \/ \E d \in ClerkUsers :
          d.email = "" /\ d.first = NullName /\ d.lastName = NullName
             /\ webhookPOST(TRUE, TRUE, "user.deleted", d)

SpecCascade == InitCascade /\ [][NextCascade]_vars

(***************************************************************************)
(* The fields of the response body of each endpoint.  The images routes    *)
(* answer their errors with a plain-text body, which has no fields.        *)
(***************************************************************************)
ResponseFields(op, status) ==
    CASE op = "POST /api/swap" ->
            IF status = 200
            THEN {"success", "swapId", "resultImageId", "generatedImageUrl", "message", "storage"}
            ELSE {"error"}
      [] op = "GET /api/swap" ->
            IF status = 200 THEN {"success", "swaps", "total"} ELSE {"error"}
      [] op = "POST /api/upload" ->
            IF status = 200 THEN {"success", "data"} ELSE {"error"}
      [] op = "GET /api/upload" ->
            IF status = 200 THEN {"success", "data"} ELSE {"error"}
      [] op = "DELETE /api/upload" ->
            IF status = 200 THEN {"success", "message"} ELSE {"error"}
      [] op = "GET /api/images" ->
            IF status = 200 THEN {"images", "pagination"} ELSE {}
      [] op = "POST /api/images" ->
            IF status = 200 THEN {"id", "userId", "type", "url", "createdAt", "updatedAt"} ELSE {}
      [] op = "GET /api/images/presigned" ->
            IF status = 200 THEN {"success", "url", "expiresIn", "action", "filename"}
            ELSE IF status = 401 THEN {}
            ELSE {"error"}
      [] OTHER -> {}

(***************************************************************************)
(* The HTTP endpoints, on an empty store of either variant.                *)
(***************************************************************************)
Callers == Users \cup {NoUser}

\* The two files of a swap request: at most one of them is not the good file.
SwapUploads ==
    {<<p, o>> \in (Files \cup {NoFile}) \X (Files \cup {NoFile}) : p = GoodFile \/ o = GoodFile}

UploadEnvs == {EnvOk, [EnvOk EXCEPT !.s3Config = FALSE], [EnvOk EXCEPT !.putFails = "person"]}

InitApi == backend \in {"convex", "prisma"} /\ InitEmpty

\* The files of a request without a user id: none, the good one, one that is
\* too large.
AnonymousFiles == {NoFile, GoodFile, [GoodFile EXCEPT !.size = MAX_FILE_SIZE + 1]}

\* Every endpoint; a signed-in caller sends well-formed requests, a request
\* without a user id names no image or the first one.  The rows with a url
\* of the client's choosing are u1's; u2's rows come from the two intake routes.
NextApi ==
    \/ \E c \in Callers, f \in AnonymousFiles :
          (c # NoUser => f = GoodFile) /\ uploadPOST(c, f, EnvOk)
    \/ \E c \in Callers : uploadGET(c)
    \/ \E c \in Callers, i \in {NoImage} \cup (1..Len(images)) :
          (c = NoUser => i \in {NoImage, 1}) /\ uploadDELETE(c, i)
    \/ \E c \in Callers, t \in {"", "USER"} : imagesGET(c, t, Absent, Absent)
    \/ \E c \in Callers, t \in {"", "USER", "OTHER"}, url \in {EmptyUrl, OtherUrl},
          b \in Callers :
          /\ c # NoUser => (c = "u1" /\ t = "USER" /\ url # EmptyUrl)
          /\ c = NoUser => b = NoUser
          /\ imagesPOST(c, t, url, b)
    \/ \E c \in Callers, f \in SwapUploads :
          /\ c # NoUser => f = <<GoodFile, GoodFile>>
          /\ c = NoUser => (f[1] \in AnonymousFiles /\ f[2] \in AnonymousFiles)
          /\ swapPOST(c, f[1], f[2], EnvOk)
    \/ \E c \in Callers : swapGET(c, Absent, Absent)
    \/ \E c \in Callers, i \in {NoImage} \cup (1..Len(images)), a \in {"", "view", "download"} :
          /\ c = NoUser => (i \in {NoImage, 1} /\ a = "")
          /\ presignedGET(c, i, a, TRUE)

SpecApi == InitApi /\ [][NextApi]_vars

\* POST and GET /api/swap with every file and every answer of the outside;
\* a request with a file that is not the good one meets no other fault.
InitSwap == backend = "convex" /\ InitEmpty

NextSwap ==
    \/ \E c \in Callers, f \in SwapUploads, e \in Envs :
          (f = <<GoodFile, GoodFile>> \/ e = EnvOk) /\ swapPOST(c, f[1], f[2], e)
    \/ \E c \in Callers : swapGET(c, Absent, Absent)

SpecSwap == InitSwap /\ [][NextSwap]_vars

\* POST, GET and DELETE /api/upload with every file, in both variants.
NextUpload ==
    \/ \E c \in Callers, f \in Files \cup {NoFile}, e \in UploadEnvs :
          (f = GoodFile \/ e = EnvOk) /\ uploadPOST(c, f, e)
    \/ \E c \in Callers : uploadGET(c)
    \/ \E c \in Callers, i \in {NoImage} \cup (1..Len(images)) : uploadDELETE(c, i)

SpecUpload == InitApi /\ [][NextUpload]_vars

(***************************************************************************)
(* Requests in flight: the ensure-user-exists step of POST /api/upload is   *)
(* two awaited calls (the lookup, then the create), and another request    *)
(* may run between them; the step of POST /api/swap is one mutation.  A    *)
(* mutation of the document store is one transaction.                      *)
(***************************************************************************)
NumRequests == 2

Requests == 1..NumRequests

RequestKinds(be) == IF be = "prisma" THEN {"upload"} ELSE {"upload", "swap"}

InitRace ==
    /\ backend \in {"convex", "prisma"}
    /\ users = <<>>
    /\ images = <<>>
    /\ swaps = <<>>
    /\ objects = <<>>
    /\ last = NoOp
    /\ procs \in [Requests -> [kind : RequestKinds(backend), userId : Users, pc : {"start"}]]

\* const existingUser = await ...getUserById / findUnique; if (existingUser) return
EnsureLookupStep(r) ==
    /\ procs[r].kind = "upload" /\ procs[r].pc = "start"
    /\ procs' = [procs EXCEPT ![r].pc =
                    IF EnsureLookup(backend, users, procs[r].userId) THEN "past" ELSE "create"]
    /\ last' = Op("ensureUserExists", procs[r].userId, 0, TRUE, <<"db.read">>, r, "lookup", <<>>)
    /\ UNCHANGED <<backend, users, images, swaps, objects>>

\* await ...createOrUpdateUser / prisma.user.create; a throw ends the request.
EnsureCreateStep(r) ==
    /\ procs[r].kind = "upload" /\ procs[r].pc = "create"
    /\ LET c == EnsureCreate(backend, users, procs[r].userId)
       IN  /\ users' = c.users
           /\ procs' = [procs EXCEPT ![r].pc = IF c.ok THEN "past" ELSE "error"]
           /\ last' = Op("ensureUserExists", procs[r].userId, IF c.ok THEN 0 ELSE 500, c.ok,
                         <<"db.write">>, r, c.kind, <<>>)
    /\ UNCHANGED <<backend, images, swaps, objects>>

\* await convexClient.mutation(api.users.createOrUpdateUser, {id: userId, email: ''})
SwapEnsureStep(r) ==
    /\ procs[r].kind = "swap" /\ procs[r].pc = "start"
    /\ LET c == ConvexUpsertUser(users, procs[r].userId, "", NoName)
       IN  /\ users' = c.users
           /\ procs' = [procs EXCEPT ![r].pc = IF c.ok THEN "past" ELSE "error"]
           /\ last' = Op("createOrUpdateUser", procs[r].userId, IF c.ok THEN 0 ELSE 500, c.ok,
                         <<"db.write">>, r, c.kind, <<>>)
    /\ UNCHANGED <<backend, images, swaps, objects>>

NextRace ==
    \/ \E r \in Requests : EnsureLookupStep(r)
    \/ \E r \in Requests : EnsureCreateStep(r)
    \/ \E r \in Requests : SwapEnsureStep(r)

SpecRace == InitRace /\ [][NextRace]_vars

(***************************************************************************)
(* validateFile on its own, on files around its limits.                    *)
(***************************************************************************)
ValidatorSizes ==
    {0, MIN_FILE_SIZE - 1, MIN_FILE_SIZE, MIN_FILE_SIZE + 1, 1024 * 1024,
     MAX_FILE_SIZE - 1, MAX_FILE_SIZE, MAX_FILE_SIZE + 1}

ValidatorFiles ==
    [size : ValidatorSizes, type : ALLOWED_FILE_TYPES \cup {"image/gif", ""},
     ext : ALLOWED_EXTENSIONS \cup {"gif"}, width : {100}, height : {100}]

validateFileCall(file) ==
    /\ last' = Op("validateFile", NoUser, 0, validateFile(file) = NoError, <<>>, 0,
                  validateFile(file), <<file>>)
    /\ UNCHANGED <<backend, users, images, swaps, objects, procs>>

InitValidate == backend = "convex" /\ InitEmpty

NextValidate == \E file \in ValidatorFiles : validateFileCall(file)

SpecValidate == InitValidate /\ [][NextValidate]_vars

(***************************************************************************)
(* calculateOptimalSettings on its own: byte sizes from 0 to 6 MiB in      *)
(* steps of 32 KiB, and the sizes next to the two thresholds.              *)
(***************************************************************************)
SettingsStep == 32 * 1024

SettingsSizes ==
    {k * SettingsStep : k \in 0..192}
        \cup {1024 * 1024 - 1, 1024 * 1024 + 1, 3 * 1024 * 1024 - 1, 3 * 1024 * 1024 + 1}

calculateOptimalSettingsCall(fileSize) ==
    /\ last' = Op("calculateOptimalSettings", NoUser, 0, TRUE, <<>>,
                  calculateOptimalSettings(fileSize), "settings", <<fileSize>>)
    /\ UNCHANGED <<backend, users, images, swaps, objects, procs>>

InitSettings == backend = "convex" /\ InitEmpty

NextSettings == \E fileSize \in SettingsSizes : calculateOptimalSettingsCall(fileSize)

SpecSettings == InitSettings /\ [][NextSettings]_vars

(***************************************************************************)
(* generateFileKey and the put that follows it, on their own: the clock    *)
(* does not go back, several puts may fall into one millisecond, and the   *)
(* digits of the uuid are any value (Uuids stands for the 2^32 values of   *)
(* eight hex digits).                                                      *)
(***************************************************************************)
Timestamps == 1..MaxClock

Uuids == 0..(NumUuids - 1)

LastTimestamp(objs) == IF objs = <<>> THEN 1 ELSE objs[Len(objs)].timestamp

keyedPut(userId, ext, timestamp, uuid) ==
    LET key == generateFileKey(ext, userId, timestamp, uuid)
        up == uploadToS3(objects, key, TRUE)
    IN  /\ Len(objects) < MaxObjects
        /\ timestamp >= LastTimestamp(objects)
        /\ objects' = up.objects
        /\ last' = Op("generateFileKey", userId, 0, TRUE, up.trace, Len(objects) + 1, "key",
                      <<ext, timestamp, uuid>>)
        /\ UNCHANGED <<backend, users, images, swaps, procs>>

InitKeys == backend = "convex" /\ InitEmpty

NextKeys ==
    \E userId \in Users, ext \in {"png", "jpg"}, timestamp \in Timestamps, uuid \in Uuids :
        keyedPut(userId, ext, timestamp, uuid)

SpecKeys == InitKeys /\ [][NextKeys]_vars

(***************************************************************************)
(* GET /api/swap on a document store that holds up to MaxHistory swaps of  *)
(* any users and statuses (rows that createImage and createSwap leave).    *)
(***************************************************************************)
SwapHistories ==
    UNION {[1..n -> {SeedSwap(u, 1, 2, NoImage, st) :
                        u \in Users, st \in {"COMPLETED", "PENDING"}}] : n \in 0..MaxHistory}

PageParams == {Absent, Text, Num(-1), Num(0), Num(1), Num(2)}

InitHistory ==
    /\ backend = "convex"
    /\ users = <<>>
    /\ images = <<SeedImage("u1", "USER"), SeedImage("u1", "OUTFIT")>>
    /\ swaps \in SwapHistories
    /\ objects = <<>>
    /\ procs = <<>>
    /\ last = NoOp

NextHistory == \E c \in Callers, l \in PageParams, o \in PageParams : swapGET(c, l, o)

SpecHistory == InitHistory /\ [][NextHistory]_vars

(***************************************************************************)
(* User rows under uploads, swaps and webhook syncs: the events of the     *)
(* identity provider give every user an email address of its own.          *)
(***************************************************************************)
AccountEvents ==
    {[id |-> "u1", email |-> "john@example.com", first |-> "John", lastName |-> "Doe"],
     [id |-> "u2", email |-> "jane@example.com", first |-> "Jane", lastName |-> NullName]}

NextAccounts ==
    \/ \E c \in Users : uploadPOST(c, GoodFile, EnvOk)
    \/ \E c \in Users, e \in {EnvOk, [EnvOk EXCEPT !.putFails = "person"]} :
          swapPOST(c, GoodFile, GoodFile, e)
    \/ \E t \in {"user.created", "user.updated"}, d \in AccountEvents :
          webhookPOST(TRUE, TRUE, t, d)

SpecAccounts == InitApi /\ [][NextAccounts]_vars

(***************************************************************************)
(* Access URLs: uploads, image rows created through POST /api/images with  *)
(* a url of the caller's choice (another address, or the address of an     *)
(* object the bucket holds), and GET /api/images/presigned.                *)
(***************************************************************************)
StoredUrls(objs) == {S3Url(objs[i]) : i \in DOMAIN objs}

NextLocator ==
    \/ \E c \in Users : uploadPOST(c, GoodFile, EnvOk)
    \/ \E c \in Users, url \in {OtherUrl} \cup StoredUrls(objects) : imagesPOST(c, "USER", url, NoUser)
    \/ \E c \in Users, i \in 1..Len(images), a \in {"view", "download"}, signOk \in BOOLEAN :
          presignedGET(c, i, a, signOk)

SpecLocator == InitSwap /\ [][NextLocator]_vars

(***************************************************************************)
(* GET /api/images on a store of either variant that holds the two users   *)
(* of the seed and the image rows POST /api/images has made.               *)
(***************************************************************************)
GalleryPages == {Absent, Num(0), Num(2), Num(3)}

GalleryLimits == {Absent, Text, Num(1), Num(2)}

InitGallery ==
    /\ backend \in {"convex", "prisma"}
    /\ users = SeedUsers
    /\ images = <<>>
    /\ swaps = <<>>
    /\ objects = <<>>
    /\ procs = <<>>
    /\ last = NoOp

NextGallery ==
    \/ \E c \in Users, t \in {"USER", "OUTFIT"} : imagesPOST(c, t, OtherUrl, NoUser)
    \/ \E c \in Users, t \in {"", "USER"}, page \in GalleryPages, limit \in GalleryLimits :
          /\ page = Num(0) => limit = Absent
          /\ limit = Text => page = Absent
          /\ imagesGET(c, t, page, limit)

SpecGallery == InitGallery /\ [][NextGallery]_vars

(***************************************************************************)
(* Swap status and result image (convex/swaps.ts).                         *)
(***************************************************************************)
Terminal == {"COMPLETED", "FAILED"}

\* C1: once a swap is COMPLETED or FAILED, no step moves it to PENDING or
\* PROCESSING (an updateSwapStatus that would is rejected and the stored
\* status stays).
C1_TerminalStatusStays ==
    [][\A s \in LiveSwapIds(swaps) :
         (swaps[s].status \in Terminal /\ LiveSwap(swaps', s))
            => swaps'[s].status \notin {"PENDING", "PROCESSING"}]_vars

\* C2: once a swap's resultImageId is set, no later operation on the swap
\* replaces it with another image id or clears it.
C2_ResultImageImmutable ==
    [][\A s \in LiveSwapIds(swaps) :
         (swaps[s].resultImageId # NoImage /\ LiveSwap(swaps', s))
            => swaps'[s].resultImageId = swaps[s].resultImageId]_vars

\* C3: in every reachable state the person image and the outfit image of
\* every swap have the same owner as the swap (createSwap rejects any other
\* combination and creates no row).
C3_SwapImagesSameOwner ==
    \A s \in LiveSwapIds(swaps) :
        /\ GetImageById(images, swaps[s].userImageId).userId = swaps[s].userId
        /\ GetImageById(images, swaps[s].outfitImageId).userId = swaps[s].userId

(***************************************************************************)
(* The user upsert (createOrUpdateUser, syncUserFromClerk).                *)
(***************************************************************************)
UpsertReached(l) ==
    /\ l.trace = <<"db.write">>
    /\ \/ l.op = "createOrUpdateUser"
       \/ l.op = "webhook" /\ l.args[1] \in {"user.created", "user.updated"}

UpsertId(l) == IF l.op = "webhook" THEN l.args[2] ELSE l.args[1]

UpsertEmail(l) == IF l.op = "webhook" THEN l.args[3] ELSE l.args[2]

\* C6: when the user upsert is called twice in a row with identical input and
\* the first call inserted, the second call succeeds as an update, the users
\* table is what it was after the first call, and it holds exactly one row
\* for that identity id, with the email of the input.
C6_UpsertIdempotent ==
    [][(/\ UpsertReached(last) /\ last.ok /\ last.kind = "insert"
        /\ UpsertReached(last') /\ last'.op = last.op /\ last'.args = last.args)
       => /\ last'.ok /\ last'.kind = "update"
          /\ users' = users
          /\ Cardinality(UserRowsOf(users', UpsertId(last'))) = 1
          /\ users'[FirstUserRow(users', UpsertId(last'))].email = UpsertEmail(last')]_vars

C6_Witness ==
    /\ UpsertReached(last) /\ last.again /\ last.ok /\ last.kind = "update"
    /\ Cardinality(UserRowsOf(users, UpsertId(last))) = 1

(***************************************************************************)
(* Deletions.                                                              *)
(***************************************************************************)
OwnsRows(us, imgs, sws, u) ==
    \/ \E i \in 1..Len(us) : us[i].id = u
    \/ \E i \in LiveImageIds(imgs) : imgs[i].userId = u
    \/ \E s \in LiveSwapIds(sws) : sws[s].userId = u

\* C4: after the user-deletion operation (the user.deleted webhook event) has
\* completed for user U, the record store holds no User, Image or Swap row
\* of U, with the relational and with the document-store backend.
C4_UserDeletionRemovesRows ==
    (last.op = "webhook" /\ last.args[1] = "user.deleted" /\ last.status = 200)
        => ~OwnsRows(users, images, swaps, last.args[2])

ReferencedAsSource(sws, id) ==
    \E s \in LiveSwapIds(sws) : sws[s].userImageId = id \/ sws[s].outfitImageId = id

NoDanglingReference(imgs, sws) ==
    \A s \in LiveSwapIds(sws) :
        /\ LiveImage(imgs, sws[s].userImageId)
        /\ LiveImage(imgs, sws[s].outfitImageId)
        /\ sws[s].resultImageId # NoImage => LiveImage(imgs, sws[s].resultImageId)

RequestsOf(u) == {r \in DOMAIN procs : procs[r].userId = u}

\* C7: of the requests that start while their user has no row, whatever the
\* interleaving of their lookups and creates, none ends its
\* ensure-user-exists step with an error, and once all requests of a user
\* are past the step the store holds exactly one row with that id.
C7_ConcurrentEnsureSafe ==
    /\ \A r \in DOMAIN procs : procs[r].pc # "error"
    /\ \A u \in Users :
          (RequestsOf(u) # {} /\ \A r \in RequestsOf(u) : procs[r].pc = "past")
             => Cardinality(UserRowsOf(users, u)) = 1

(***************************************************************************)
(* The endpoints: validation and authentication.                           *)
(***************************************************************************)
ClientError(status) == status >= 400 /\ status <= 499

FailsFileValidator(file) == file # NoFile /\ validateFile(file) # NoError

\* C8: a POST /api/swap of a signed-in caller in which the person image or
\* the outfit image fails the file validator (size, content type or
\* extension) is answered with a 4xx status and has made no AI call, no
\* object-store call and no record-store call.
C8_SwapValidationFirst ==
    (/\ last.op = "POST /api/swap" /\ last.caller # NoUser
     /\ FailsFileValidator(last.args[1]) \/ FailsFileValidator(last.args[2]))
        => ClientError(last.status) /\ last.trace = <<>>

\* C9: a POST /api/upload of a signed-in caller whose file is missing, fails
\* validateFile or fails validateImageBuffer is answered with a 4xx status
\* and leaves users, images, swaps and the object store as they were.
C9_UploadValidationFrame ==
    [][(/\ last'.op = "POST /api/upload" /\ last'.caller # NoUser
        /\ \/ last'.args[1] = NoFile
           \/ validateFile(last'.args[1]) # NoError
           \/ validateImageBuffer(last'.args[1]) # NoError)
       => /\ ClientError(last'.status)
          /\ users' = users /\ images' = images /\ swaps' = swaps /\ objects' = objects]_vars

AuthenticatedEndpoints ==
    {"POST /api/upload", "GET /api/upload", "DELETE /api/upload", "GET /api/images",
     "POST /api/images", "POST /api/swap", "GET /api/swap", "GET /api/images/presigned"}

\* C10: a request to any of the eight endpoints that carries no user id is
\* answered with 401, has made no record-store, object-store or AI call, and
\* leaves users, images, swaps and the object store as they were.
C10_UnauthenticatedIs401 ==
    [][(last'.op \in AuthenticatedEndpoints /\ last'.caller = NoUser)
       => /\ last'.status = 401 /\ last'.trace = <<>>
          /\ users' = users /\ images' = images /\ swaps' = swaps /\ objects' = objects]_vars

C10_Witness ==
    /\ last.op = "POST /api/swap" /\ last.caller = NoUser /\ last.status = 401
    /\ last.trace = <<>>
    /\ FailsFileValidator(last.args[1])
    /\ LiveSwapIds(swaps) # {} /\ Len(objects) > 0

(***************************************************************************)
(* POST /api/swap: the order of its steps and its outcomes.                *)
(***************************************************************************)
AiCalls == {"ai.describe", "ai.generate", "ai.fallback"}

CountBefore(trace, i, label) == Cardinality({j \in 1..(i - 1) : trace[j] = label})

\* C11: in the calls one POST /api/swap makes, two object-store puts and two
\* record-store writes of image rows come before the first AI call, and the
\* description call comes before the generation call.
C11_SwapStepOrder ==
    last.op = "POST /api/swap"
        => \A i \in DOMAIN last.trace :
              /\ last.trace[i] \in AiCalls
                    => /\ CountBefore(last.trace, i, "s3.put") >= 2
                       /\ CountBefore(last.trace, i, "db.write") >= 2
              /\ last.trace[i] = "ai.generate"
                    => CountBefore(last.trace, i, "ai.describe") >= 1

PassedValidation(l) ==
    /\ l.caller # NoUser
    /\ l.args[1] # NoFile /\ validateFile(l.args[1]) = NoError
    /\ l.args[2] # NoFile /\ validateFile(l.args[2]) = NoError

\* C12: after a POST /api/swap whose files passed validation and which
\* failed in a later step (AI, object store), the store holds a swap row of
\* the caller with status FAILED and an error string.
C12_FailedSwapRecorded ==
    (last.op = "POST /api/swap" /\ PassedValidation(last) /\ last.status >= 500)
        => \E s \in LiveSwapIds(swaps) :
              /\ swaps[s].userId = last.caller
              /\ swaps[s].status = "FAILED"
              /\ swaps[s].error # NoError

\* C13: after a POST /api/swap that answered success: true, the swap row of
\* the request is COMPLETED and its resultImageId names an image row of type
\* RESULT owned by the caller.
C13_SuccessHasResultImage ==
    (last.op = "POST /api/swap" /\ last.status = 200)
        => /\ LiveSwap(swaps, last.target)
           /\ swaps[last.target].status = "COMPLETED"
           /\ swaps[last.target].resultImageId # NoImage
           /\ GetImageById(images, swaps[last.target].resultImageId).type = "RESULT"
           /\ GetImageById(images, swaps[last.target].resultImageId).userId = last.caller

ResultRows(imgs) == {i \in LiveImageIds(imgs) : imgs[i].type = "RESULT"}

\* C14: a POST /api/swap whose generation call answers without an image
\* leaves a swap row of the caller with status FAILED, answers with an error
\* status, and creates no image row of type RESULT.
C14_NoImageIsFailed ==
    [][(/\ last'.op = "POST /api/swap" /\ last'.args[3] = "no image"
        /\ "ai.generate" \in {last'.trace[i] : i \in DOMAIN last'.trace})
       => /\ \E s \in LiveSwapIds(swaps') :
                swaps'[s].userId = last'.caller /\ swaps'[s].status = "FAILED"
          /\ last'.status >= 400
          /\ ResultRows(images') = ResultRows(images)]_vars

\* C15: a POST /api/swap whose description call answers with an error status
\* or without text makes no generation call and answers with an error.
C15_DescriptionFailureIsHard ==
    (/\ last.op = "POST /api/swap"
     /\ last.args[3] \in {"describe error", "empty description"}
     /\ "ai.describe" \in {last.trace[i] : i \in DOMAIN last.trace})
        => /\ "ai.generate" \notin {last.trace[i] : i \in DOMAIN last.trace}
           /\ last.status >= 400

(***************************************************************************)
(* Response bodies.                                                        *)
(***************************************************************************)
\* C16: the body of every response of the eight endpoints has a success
\* field, and the body of every response with an error status has an error
\* field.
C16_SuccessFlagEverywhere ==
    last.op \in AuthenticatedEndpoints
        => /\ "success" \in ResponseFields(last.op, last.status)
           /\ last.status >= 400 => "error" \in ResponseFields(last.op, last.status)

(***************************************************************************)
(* Images of other users.                                                  *)
(***************************************************************************)
OthersImages(imgs, caller) == {x \in LiveImageIds(imgs) : imgs[x].userId # caller}

\* The answer to DELETE /api/upload?id=x is the same generic 404 with and
\* without the row x, and neither store is changed.
DeleteHides(be, imgs, sws, caller, x) ==
    LET with == DeleteResponse(be, imgs, sws, caller, x)
        without == DeleteResponse(be, RemoveImages(imgs, {x}), sws, caller, x)
    IN  /\ with.status = 404 /\ without.status = 404
        /\ with.kind = without.kind
        /\ with.images = imgs /\ with.swaps = sws
        /\ without.images = RemoveImages(imgs, {x}) /\ without.swaps = sws

\* The same for GET /api/images/presigned?imageId=x.
PresignedHides(imgs, caller, x, action) ==
    LET with == PresignedResponse(imgs, caller, x, action, TRUE)
        without == PresignedResponse(RemoveImages(imgs, {x}), caller, x, action, TRUE)
    IN  with.status = 404 /\ without.status = 404 /\ with.kind = without.kind

\* C17 (as stated): for every image x of another user, every per-image
\* request of the caller (DELETE /api/upload, GET /api/images/presigned) gets
\* the same generic 404 whether or not the row x exists, and changes nothing.
C17_PerImageRequestsHideOthersImages ==
    \A c \in Users : \A x \in OthersImages(images, c) :
        /\ DeleteHides(backend, images, swaps, c, x)
        /\ backend = "convex" => \A a \in {"view", "download"} : PresignedHides(images, c, x, a)

\* C17 (amended): for every image x of another user, DELETE /api/upload?id=x
\* by the caller gets the same generic 404 whether or not the row x exists,
\* and changes nothing.
C17_DeleteHidesOthersImages ==
    \A c \in Users : \A x \in OthersImages(images, c) :
        DeleteHides(backend, images, swaps, c, x)

C17_Witness ==
    /\ last.op = "DELETE /api/upload" /\ last.caller # NoUser /\ last.status = 404
    /\ last.target \in OthersImages(images, last.caller)

\* C18: GET /api/images/presigned for an image row of another user answers
\* 403, signs nothing and returns no url.
C18_PresignedDeniedForOthers ==
    (/\ last.op = "GET /api/images/presigned" /\ last.caller # NoUser
     /\ last.args[1] \in OthersImages(images, last.caller))
        => /\ last.status = 403
           /\ "s3.sign" \notin {last.trace[i] : i \in DOMAIN last.trace}
           /\ last.signed = 0
           /\ "url" \notin ResponseFields(last.op, last.status)

C18_Witness ==
    /\ last.op = "GET /api/images/presigned" /\ last.status = 403
    /\ last.args[1] \in OthersImages(images, last.caller)
    /\ last.args[2] = "download"

\* C19: a presigned URL is signed for 300 seconds when action is download and
\* for 3600 seconds when it is view or absent, and the expiresIn of the
\* response is the expiry that was signed.
C19_PresignedTtl ==
    (last.op = "GET /api/images/presigned" /\ last.status = 200)
        => /\ last.args[2] = "download" => last.signed = 300
           /\ last.args[2] \in {"", "view"} => last.signed = 3600
           /\ last.target = last.signed

C19_Witness ==
    /\ last.op = "GET /api/images/presigned" /\ last.status = 200
    /\ last.args[2] = "download" /\ last.signed = 300 /\ last.target = 300

(***************************************************************************)
(* validateFile.                                                           *)
(***************************************************************************)
\* C20: for a file with an allow-listed content type and an allow-listed
\* extension, validateFile accepts exactly the sizes from 1024 to 5242880
\* bytes, both included; 1023 and 5242881 are rejected.
C20_ValidateFileSizeBounds ==
    (/\ last.op = "validateFile"
     /\ last.args[1].type \in {"image/jpeg", "image/jpg", "image/png", "image/webp"}
     /\ last.args[1].ext \in {"jpg", "jpeg", "png", "webp"})
        => (last.ok <=> (last.args[1].size >= 1024 /\ last.args[1].size <= 5242880))

C20_Witness ==
    /\ last.op = "validateFile" /\ last.ok
    /\ last.args[1].size = 5242880 /\ last.args[1].type = "image/webp"
    /\ last.args[1].ext = "jpeg"


(***************************************************************************)
(* calculateOptimalSettings.                                               *)
(***************************************************************************)
\* C21: the settings depend on the byte size alone: above 3 MiB the envelope
\* is 1600x900 with quality 70 (the lowest) and format webp; above 1 MiB and
\* up to 3 MiB it is 1920x1080 with quality 80; up to 1 MiB it is 1920x1080
\* with quality 85 (the highest).  Of two calls in a row, the one with the
\* larger size gets no higher quality and no larger envelope.
C21_SettingsTiers ==
    [][last'.op = "calculateOptimalSettings"
       => /\ last'.args[1] > 3145728
               => /\ last'.target.maxWidth = 1600 /\ last'.target.maxHeight = 900
                  /\ last'.target.quality = 70 /\ last'.target.format = "webp"
          /\ (last'.args[1] > 1048576 /\ last'.args[1] <= 3145728)
               => /\ last'.target.maxWidth = 1920 /\ last'.target.maxHeight = 1080
                  /\ last'.target.quality = 80
          /\ last'.args[1] <= 1048576
               => /\ last'.target.maxWidth = 1920 /\ last'.target.maxHeight = 1080
                  /\ last'.target.quality = 85
          /\ (last.op = "calculateOptimalSettings" /\ last'.args[1] >= last.args[1])
               => /\ last'.target.quality <= last.target.quality
                  /\ last'.target.maxWidth <= last.target.maxWidth
                  /\ last'.target.maxHeight <= last.target.maxHeight]_vars

C21_Witness ==
    /\ last.op = "calculateOptimalSettings" /\ last.args[1] = 3145728
    /\ last.target.maxWidth = 1920 /\ last.target.quality = 80

(***************************************************************************)
(* The pixel-dimension guard on both intake paths.                         *)
(***************************************************************************)
OutsidePixelLimits(file) ==
    file.width < 100 \/ file.height < 100 \/ file.width > 5000 \/ file.height > 5000

IntakeFiles(l) ==
    IF l.op = "POST /api/upload" THEN {l.args[1]} \ {NoFile}
    ELSE IF l.op = "POST /api/swap" THEN {l.args[1], l.args[2]} \ {NoFile}
    ELSE {}

\* C22: a POST /api/upload or POST /api/swap of a signed-in caller with an
\* image whose width or height is under 100 or over 5000 pixels is rejected
\* and creates no image row; an upload whose image has both sides within
\* 100..5000 is not rejected by the pixel guard.
C22_PixelGuardOnIntake ==
    [][(last'.op \in {"POST /api/upload", "POST /api/swap"} /\ last'.caller # NoUser)
       => /\ (\E f \in IntakeFiles(last') : OutsidePixelLimits(f))
               => (~last'.ok /\ images' = images)
          /\ (\A f \in IntakeFiles(last') : ~OutsidePixelLimits(f))
               => last'.kind # "validateImageBuffer"]_vars

(***************************************************************************)
(* Object keys.                                                            *)
(***************************************************************************)
\* C23: no two puts of the object store have the same key, whatever the
\* users, the milliseconds and the number of the puts: no put replaces the
\* object of an earlier put.
C23_KeysNeverReused ==
    \A i \in DOMAIN objects : \A j \in DOMAIN objects : i # j => objects[i] # objects[j]

(***************************************************************************)
(* GET /api/swap: the page of the history.                                 *)
(***************************************************************************)
\* The rows at the positions offset .. offset + limit - 1 (counted from 0) of
\* a list.
Positions(list, offset, limit) ==
    SubSeq(list, (IF offset < 0 THEN 0 ELSE offset) + 1,
                 IF offset + limit > Len(list) THEN Len(list) ELSE offset + limit)

CompletedOf(sws, u) ==
    NewestFirst({x \in LiveSwapIds(sws) : sws[x].userId = u /\ sws[x].status = "COMPLETED"})

\* C24: GET /api/swap of a signed-in caller with integer (or absent) limit
\* and offset returns only swaps of the caller, the newest first; the list is
\* the positions offset .. offset + limit - 1 of the caller's COMPLETED swaps
\* in that order, and total is the number of the caller's COMPLETED swaps.
C24_SwapHistoryPage ==
    (/\ last.op = "GET /api/swap" /\ last.status = 200
     /\ last.args[1].kind # "text" /\ last.args[2].kind # "text")
        => LET limit == IF last.args[1].kind = "absent" THEN 10 ELSE last.args[1].n
               offset == IF last.args[2].kind = "absent" THEN 0 ELSE last.args[2].n
           IN  /\ \A i \in DOMAIN last.items : swaps[last.items[i]].userId = last.caller
               /\ \A i \in DOMAIN last.items : \A j \in DOMAIN last.items :
                     i < j => last.items[i] > last.items[j]
               /\ last.items = Positions(CompletedOf(swaps, last.caller), offset, limit)
               /\ last.target = Len(CompletedOf(swaps, last.caller))

(***************************************************************************)
(* The webhook of the identity provider.                                   *)
(***************************************************************************)
\* C25: a webhook POST without the signature headers or with a signature
\* that does not verify is answered 400, makes no record-store call and
\* leaves users, images and swaps as they were; a webhook POST that is
\* answered 200 had the headers and a verified signature, and its handler
\* has run to its end: after user.created and user.updated the store holds a
\* row with the id and the email of the event, after user.deleted the
\* deletion has returned (and the relational store holds no row with the id).
C25_WebhookSignatureFirst ==
    [][last'.op = "webhook"
       => /\ (~last'.args[6] \/ ~last'.args[7])
               => /\ last'.status = 400 /\ last'.trace = <<>>
                  /\ users' = users /\ images' = images /\ swaps' = swaps
          /\ last'.status = 200
               => /\ last'.args[6] /\ last'.args[7]
                  /\ last'.args[1] \in {"user.created", "user.updated"}
                       => \E i \in 1..Len(users') :
                              users'[i].id = last'.args[2] /\ users'[i].email = last'.args[3]
                  /\ last'.args[1] = "user.deleted"
                       => /\ last'.kind = "deleted"
                          /\ backend = "prisma" => ~PkTaken(users', last'.args[2])]_vars

C25_Witness ==
    /\ last.op = "webhook" /\ last.status = 400
    /\ last.args[6] /\ ~last.args[7]
    /\ last.args[1] = "user.deleted" /\ PkTaken(users, last.args[2])

(***************************************************************************)
(* User rows.                                                              *)
(***************************************************************************)
\* C26: in every reachable state no two rows of users have the same email
\* and no two rows of users have the same identity id.
C26_UniqueEmailAndId ==
    \A i \in 1..Len(users) : \A j \in 1..Len(users) :
        i # j => (users[i].email # users[j].email /\ users[i].id # users[j].id)

\* C27: a POST /api/swap of a caller who has a row in users leaves the email
\* and the name of that row as they were.
C27_SwapKeepsEmailAndName ==
    [][(last'.op = "POST /api/swap" /\ last'.caller # NoUser /\ UserExists(users, last'.caller))
       => /\ UserExists(users', last'.caller)
          /\ users'[FirstUserRow(users', last'.caller)].email
                = users[FirstUserRow(users, last'.caller)].email
          /\ users'[FirstUserRow(users', last'.caller)].name
                = users[FirstUserRow(users, last'.caller)].name]_vars

(***************************************************************************)
(* Access URLs.                                                            *)
(***************************************************************************)
\* C28: every URL that GET /api/images/presigned signs for a caller is for
\* an object key under the caller's own prefix images/<caller>/.
C28_PresignedKeyUnderOwnPrefix ==
    (last.op = "GET /api/images/presigned" /\ last.status = 200)
        => last.key.userId = last.caller

(***************************************************************************)
(* Ownership of image rows and of the lists.                               *)
(***************************************************************************)
\* C29: every image row a request creates has the userId of the signed-in
\* caller of that request, whatever the body of the request says; and the
\* rows GET /api/images and GET /api/upload return all have the userId of
\* the caller, those of GET /api/upload the type USER as well.
C29_RowsAndListsAreTheCallers ==
    [][/\ \A i \in (Len(images) + 1)..Len(images') :
             last'.caller # NoUser /\ images'[i].userId = last'.caller
       /\ (last'.op \in {"GET /api/images", "GET /api/upload"} /\ last'.status = 200)
             => \A k \in DOMAIN last'.items :
                   /\ LiveImage(images', last'.items[k])
                   /\ images'[last'.items[k]].userId = last'.caller
                   /\ last'.op = "GET /api/upload" => images'[last'.items[k]].type = "USER"]_vars

C29_Witness ==
    /\ last.op = "GET /api/images" /\ last.status = 200 /\ last.items # <<>>
    /\ \E i \in LiveImageIds(images) : images[i].userId \notin {last.caller, NoUser}

(***************************************************************************)
(* GET /api/images: the pages.                                             *)
(***************************************************************************)
ImagesOf(imgs, u, type) ==
    NewestFirst({i \in LiveImageIds(imgs) :
                    imgs[i].userId = u /\ (type \in ImageTypes => imgs[i].type = type)})

Members(seq) == {seq[k] : k \in DOMAIN seq}

\* The items GET /api/images gives the caller of the last request for page p
\* with the type and the limit of that request.
PageOf(p) ==
    ImagesPage(backend, images, last.caller, last.args[1], Num(p), last.args[3]).items

\* C30: GET /api/images with page >= 1 and limit >= 1 (absent: 1 and 10)
\* returns the positions (page-1)*limit .. page*limit-1 of the caller's
\* images (of the type asked for), the newest first; total is their number
\* and pages is total/limit rounded up; the pages 1..pages have no image in
\* common, hold every image between them, and page pages+1 is empty.
C30_ImagePages ==
    (/\ last.op = "GET /api/images" /\ last.status = 200
     /\ last.args[2].kind # "text" /\ last.args[3].kind # "text"
     /\ last.args[2].kind = "number" => last.args[2].n >= 1
     /\ last.args[3].kind = "number" => last.args[3].n >= 1)
        => LET page == IF last.args[2].kind = "absent" THEN 1 ELSE last.args[2].n
               limit == IF last.args[3].kind = "absent" THEN 10 ELSE last.args[3].n
               list == ImagesOf(images, last.caller, last.args[1])
               pages == last.pages.n
           IN  /\ last.items = Positions(list, (page - 1) * limit, limit)
               /\ last.target = Len(list)
               /\ ~last.pages.nan
               /\ pages * limit >= Len(list) /\ (pages - 1) * limit < Len(list)
               /\ \A p \in 1..pages : \A q \in 1..pages :
                     p # q => Members(PageOf(p)) \cap Members(PageOf(q)) = {}
               /\ \A p \in 1..pages : Cardinality(Members(PageOf(p))) = Len(PageOf(p))
               /\ UNION {Members(PageOf(p)) : p \in 1..pages} = Members(list)
               /\ PageOf(pages + 1) = <<>>

C30_Witness ==
    /\ last.op = "GET /api/images" /\ last.status = 200 /\ backend = "prisma"
    /\ last.args[2] = Num(2) /\ last.args[3] = Num(2)
    /\ last.target = 3 /\ Len(last.items) = 1 /\ last.pages.n = 2

=============================================================================
